---- MODULE Spec2Model ----
(***************************************************************************)
(* Model of src/BattleStatistics.py: the Streamlit script that reads the   *)
(* sheet "Donnees Brutes" of an uploaded workbook, cleans the columns      *)
(* Heure, Date and Score, derives Week_Label and Status, and computes and  *)
(* renders the weekly legion summary, the rosters, the hourly histograms,  *)
(* the global player table and the schedule matrix, in source order.       *)
(*                                                                         *)
(* A cell of the sheet is a record [t, s, n]: text (t = "str", s the       *)
(* sequence of its characters), a whole number (t = "num", n its value) or *)
(* a blank cell, which pandas reads as NaN (t = "nan").  Python strings    *)
(* are sequences of one-character strings so that str.upper, str.replace,  *)
(* str.strip, str.isdigit, int() and the format specs are computed, not    *)
(* assumed.  Percentages that the script rounds to 2 decimals are kept in  *)
(* hundredths (50.00 is 5000).                                             *)
(***************************************************************************)
EXTENDS Integers, Sequences, FiniteSets

\* ---------------------------------------------------------------- bounds
\* Longest file (number of data rows) of the families of uploaded files.
MaxRows == 2
\* Longest raw Heure text of the hour family.
MaxHourLen == 3
\* Longest raw Score text of the score family.
MaxScoreLen == 3

\* ----------------------------------------------------------------- cells
Txt(s) == [t |-> "str", s |-> s, n |-> 0]
Num(n) == [t |-> "num", s |-> <<>>, n |-> n]
NaN == [t |-> "nan", s |-> <<>>, n |-> 0]

IsTxt(c) == c.t = "str"
IsNum(c) == c.t = "num"
IsNaN(c) == c.t = "nan"

\* ------------------------------------------------------- Python strings
Digits == <<"0", "1", "2", "3", "4", "5", "6", "7", "8", "9">>
LowerCase == <<"a", "b", "c", "d", "e", "f", "g", "h", "i", "j", "k", "l", "m",
               "n", "o", "p", "q", "r", "s", "t", "u", "v", "w", "x", "y", "z">>
UpperCase == <<"A", "B", "C", "D", "E", "F", "G", "H", "I", "J", "K", "L", "M",
               "N", "O", "P", "Q", "R", "S", "T", "U", "V", "W", "X", "Y", "Z">>
\* The characters of the model in code point order (str comparison).
CodePoints == <<" ", "!", ",", "-", ".", "/">> \o Digits \o <<":">> \o UpperCase \o LowerCase

IndexIn(c, seq) == IF \E i \in 1..Len(seq) : seq[i] = c
                   THEN CHOOSE i \in 1..Len(seq) : seq[i] = c
                   ELSE 0

IsDigitChar(c) == IndexIn(c, Digits) > 0
DigitVal(c) == IndexIn(c, Digits) - 1

\* str.upper: per character
UpperChar(c) == IF IndexIn(c, LowerCase) > 0 THEN UpperCase[IndexIn(c, LowerCase)] ELSE c
StrUpper(s) == [i \in 1..Len(s) |-> UpperChar(s[i])]

\* str.replace(old, '') for a one-character old: every occurrence goes
StrRemove(s, old) == SelectSeq(s, LAMBDA c : c # old)

\* str.strip: leading and trailing whitespace
RECURSIVE LStrip(_)
LStrip(s) == IF Len(s) > 0 /\ s[1] = " " THEN LStrip(Tail(s)) ELSE s
RECURSIVE RStrip(_)
RStrip(s) == IF Len(s) > 0 /\ s[Len(s)] = " " THEN RStrip(SubSeq(s, 1, Len(s) - 1)) ELSE s
StrStrip(s) == RStrip(LStrip(s))

\* str.isdigit: not empty and every character a digit
StrIsDigit(s) == Len(s) > 0 /\ \A i \in 1..Len(s) : IsDigitChar(s[i])

\* int(s) of a string of digits
RECURSIVE ParseDigits(_)
ParseDigits(s) == IF Len(s) = 0 THEN 0
                  ELSE 10 * ParseDigits(SubSeq(s, 1, Len(s) - 1)) + DigitVal(s[Len(s)])

\* str(n) of n >= 0
RECURSIVE NatToStr(_)
NatToStr(n) == IF n < 10 THEN <<Digits[n + 1]>>
               ELSE NatToStr(n \div 10) \o <<Digits[(n % 10) + 1]>>
IntToStr(n) == IF n < 0 THEN <<"-">> \o NatToStr(-n) ELSE NatToStr(n)

\* f"{n:02d}": at least two digits, zero-padded
Format02d(n) == IF n >= 0 /\ n < 10 THEN <<"0">> \o NatToStr(n) ELSE IntToStr(n)

\* str(val) of a cell
PyStr(c) == IF IsTxt(c) THEN c.s ELSE IF IsNum(c) THEN IntToStr(c.n) ELSE <<"n", "a", "n">>

\* sub in s
StrContains(sub, s) == \E i \in 0..(Len(s) - Len(sub)) : SubSeq(s, i + 1, i + Len(sub)) = sub

\* s < t for Python strings: code point order, a proper prefix first
RECURSIVE StrLess(_, _)
StrLess(s, t) == IF Len(t) = 0 THEN FALSE
                 ELSE IF Len(s) = 0 THEN TRUE
                 ELSE IF s[1] = t[1] THEN StrLess(Tail(s), Tail(t))
                 ELSE IndexIn(s[1], CodePoints) < IndexIn(t[1], CodePoints)

\* The text values of a set of text cells in ascending order.
RECURSIVE SortTxt(_)
SortTxt(S) == IF S = {} THEN <<>>
              ELSE LET m == CHOOSE x \in S : \A y \in S \ {x} : StrLess(x.s, y.s)
                   IN <<m>> \o SortTxt(S \ {m})

\* ------------------------------------------------------------ clean_hour
val_str(val) == StrStrip(StrRemove(StrUpper(PyStr(val)), "H"))
\* clean_hour returning the trimmed remainder where it returns val
clean_hour_trimmed(val) == IF StrIsDigit(val_str(val))
                           THEN Txt(Format02d(ParseDigits(val_str(val))) \o <<":", "0", "0">>)
                           ELSE IF IsTxt(val) THEN Txt(StrStrip(val.s)) ELSE val
clean_hour(val) == IF StrIsDigit(val_str(val))
                   THEN Txt(Format02d(ParseDigits(val_str(val))) \o <<":", "0", "0">>)
                   ELSE val

\* --------------------------------------------------- the uploaded workbook
\* Names and labels of the modelled sheets.
P1 == Txt(<<"P", "1">>)
P2 == Txt(<<"P", "2">>)
LegionA == Txt(<<"A">>)
LegionB == Txt(<<"B">>)
Victory == Txt(<<"V", "i", "c", "t", "o", "r", "y">>)
Defeat == Txt(<<"D", "e", "f", "e", "a", "t">>)
Draw == Txt(<<"D", "r", "a", "w">>)
BigVictory == Txt(<<"V", "i", "c", "t", "o", "r", "y", "!">>)
Hour9H == Txt(<<"9", "H">>)
Hour1400 == Txt(<<"1", "4", ":", "0", "0">>)
Score1000 == Txt(<<"1", ",", "0", "0", "0">>)
Score0 == Txt(<<"0">>)

HourAlphabet == {"9", "0", "1", "H", "h", " ", ":"}
ScoreAlphabet == {"1", "0", ",", ".", "-", "x"}

\* The non-empty sequences over S of length at most n.
SeqsUpTo(S, n) == UNION {[1..k -> S] : k \in 1..n}

\* The sheet has the six columns the script reads.  Joueur, Legion and Result
\* cells are text or blank, Heure and Score cells text, whole numbers or blank.
\* Date cells hold valid dates, here the day of January 2024 (the 1st is a
\* Monday): 1 is in ISO week 1 and 8 in ISO week 2.  With such a sheet the
\* only statement of the script that raises is the sorted() of the rosters.
WeeklyRows == [Joueur : {P1, P2, NaN}, Legion : {LegionA, NaN}, Date : {1, 8},
               Heure : {Hour9H}, Score : {Num(0), Num(5)}, Result : {Victory}]
ResultRows == [Joueur : {P1}, Legion : {LegionA, LegionB}, Date : {1},
               Heure : {Hour9H}, Score : {Num(5)}, Result : {Victory, Defeat, Draw, NaN}]
PlayerRows == [Joueur : {P1, P2}, Legion : {LegionA}, Date : {1},
               Heure : {Hour9H}, Score : {Score1000, Score0, Num(-5)},
               Result : {Victory, Defeat, BigVictory}]
MatrixRows == [Joueur : {P1, P2, NaN}, Legion : {LegionA}, Date : {1},
               Heure : {Hour9H, Hour1400, NaN}, Score : {Num(0), Num(5)}, Result : {Victory}]
HourRows == [Joueur : {P1}, Legion : {LegionA}, Date : {1},
             Heure : {Txt(s) : s \in SeqsUpTo(HourAlphabet, MaxHourLen)} \cup {Num(9), NaN},
             Score : {Num(5)}, Result : {Victory}]
ScoreRows == [Joueur : {P1}, Legion : {LegionA}, Date : {1}, Heure : {Hour9H},
              Score : {Txt(s) : s \in SeqsUpTo(ScoreAlphabet, MaxScoreLen)}
                      \cup {Num(-1), Num(0), Num(7), NaN},
              Result : {Victory}]

\* The workbooks of the model: files of a few rows that vary the columns an
\* aggregation reads, and one-row files that vary one raw cell.
Files == SeqsUpTo(WeeklyRows, MaxRows) \cup SeqsUpTo(ResultRows, MaxRows + 1)
         \cup SeqsUpTo(PlayerRows, MaxRows) \cup SeqsUpTo(MatrixRows, MaxRows)
         \cup SeqsUpTo(HourRows, 1) \cup SeqsUpTo(ScoreRows, 1)

\* ----------------------------------------------------------------- state
VARIABLES uploaded_file, pc, df, selected_week, final_summary_table,
          weekly_hourly_stats, df_active, df_inactive, player_stats,
          global_hourly_stats, schedule_pivot, computed, rendered

vars == <<uploaded_file, pc, df, selected_week, final_summary_table,
          weekly_hourly_stats, df_active, df_inactive, player_stats,
          global_hourly_stats, schedule_pivot, computed, rendered>>

\* ----------------------------------------------------------- sequences
Range(s) == {s[i] : i \in 1..Len(s)}
RECURSIVE SumSeq(_)
SumSeq(s) == IF Len(s) = 0 THEN 0 ELSE s[1] + SumSeq(Tail(s))
Column(rows, col) == [i \in 1..Len(rows) |-> rows[i][col]]
Count(rows, Test(_)) == Len(SelectSeq(rows, Test))

\* ------------------------------------------------------- Date, Week_Label
\* isocalendar() of a day of January 2024
IsoYear(d) == 2024
IsoWeek(d) == ((d - 1) \div 7) + 1

RECURSIVE SortInts(_)
SortInts(S) == IF S = {} THEN <<>>
               ELSE LET m == CHOOSE x \in S : \A y \in S : x <= y
                    IN <<m>> \o SortInts(S \ {m})

\* week_date_map[(year, week)]: the label's parts, f"{year} W{week:02d} ({dates})"
WeekLabelOf(rows, d) ==
    [year |-> IsoYear(d), week |-> IsoWeek(d),
     dates |-> SortInts({rows[i].Date : i \in {j \in 1..Len(rows) :
                            IsoYear(rows[j].Date) = IsoYear(d)
                            /\ IsoWeek(rows[j].Date) = IsoWeek(d)}})]

\* ----------------------------------------------------------- Clean Score
\* pd.to_numeric(text, errors='coerce') on the texts of the model: an optional
\* minus sign and digits parse, anything else (the empty text too) is NaN.
IsIntText(s) == IF Len(s) > 0 /\ s[1] = "-" THEN StrIsDigit(Tail(s)) ELSE StrIsDigit(s)
ToNumeric(s) == IF ~IsIntText(s) THEN NaN
                ELSE IF s[1] = "-" THEN Num(0 - ParseDigits(Tail(s)))
                ELSE Num(ParseDigits(s))
\* a column holding a text cell has dtype object
IsObjectColumn(col) == \E i \in 1..Len(col) : IsTxt(col[i])
\* .astype(str).str.replace(',', '').str.replace('.', '')
StripSeparators(c) == StrRemove(StrRemove(PyStr(c), ","), ".")
\* .fillna(0)
FillNa0(c) == IF IsNaN(c) THEN 0 ELSE c.n
CleanScore(col, i) ==
    IF IsObjectColumn(col) THEN FillNa0(ToNumeric(StripSeparators(col[i])))
    ELSE FillNa0(col[i])

\* ---------------------------------------------------------- Define Status
StatusOf(x) == IF x > 0 THEN "Active" ELSE "Inactive"

\* The frame after the cleaning and preprocessing block.
Preprocess(rows) ==
    [i \in 1..Len(rows) |->
        [Joueur |-> rows[i].Joueur, Legion |-> rows[i].Legion, Date |-> rows[i].Date,
         Heure |-> clean_hour(rows[i].Heure),
         Week_Label |-> WeekLabelOf(rows, rows[i].Date),
         Score |-> CleanScore(Column(rows, "Score"), i),
         Status |-> StatusOf(CleanScore(Column(rows, "Score"), i)),
         Result |-> rows[i].Result]]

unique_weeks == {df[i].Week_Label : i \in 1..Len(df)}
df_week_filtered == SelectSeq(df, LAMBDA r : r.Week_Label = selected_week)

\* ------------------------------------------------------ pandas primitives
\* The keys of groupby(col): the distinct values, NaN dropped.
GroupKeys(rows, col) == {rows[i][col] : i \in 1..Len(rows)} \ {NaN}
GroupRows(rows, col, key) == SelectSeq(rows, LAMBDA r : r[col] = key)

\* Series.mode() leaving the most frequent values in order of appearance
SeriesMode_unsorted(col) ==
    LET vals == Range(col) \ {NaN}
        n(v) == Count(col, LAMBDA c : c = v)
    IN SelectSeq([i \in 1..Len(col) |->
                     IF \A j \in 1..(i - 1) : col[j] # col[i] THEN col[i] ELSE NaN],
                 LAMBDA c : c \in vals /\ \A w \in vals : n(w) <= n(c))
\* Series.mode(): the most frequent non-NaN values, in ascending order.
SeriesMode(col) ==
    LET vals == Range(col) \ {NaN}
        n(v) == Count(col, LAMBDA c : c = v)
    IN SortTxt({v \in vals : \A w \in vals : n(w) <= n(v)})
NA == Txt(<<"N", "/", "A">>)
\* lambda x: x.mode().iloc[0] if not x.mode().empty else "N/A"
ModeOrNA(col) == IF Len(SeriesMode(col)) = 0 THEN NA ELSE SeriesMode(col)[1]

\* Float division a / b * 100 as pandas performs it: x/0 is inf, 0/0 is NaN.
Finite(num, den) == [k |-> "finite", num |-> num, den |-> den]
Percent(a, b) == IF b # 0 THEN Finite(a * 100, b)
                 ELSE IF a # 0 THEN [k |-> "inf", num |-> 0, den |-> 0]
                 ELSE [k |-> "nan", num |-> 0, den |-> 0]

\* round(num / den, 0) to the nearest integer, ties to even (den > 0)
RoundDiv(num, den) ==
    LET q == num \div den
        r == num % den
    IN IF 2 * r < den THEN q
       ELSE IF 2 * r > den THEN q + 1
       ELSE IF q % 2 = 0 THEN q ELSE q + 1

\* ------------------------------------------- legion summary (weekly)
nunique(col) == Cardinality(Range(col) \ {NaN})

base_stats(dfw, legion) ==
    LET g == GroupRows(dfw, "Legion", legion)
    IN [Total_Players |-> nunique(Column(g, "Joueur")),
        Total_Score |-> SumSeq(Column(g, "Score")),
        Result |-> ModeOrNA(Column(g, "Result"))]

\* status_counts counting each player once per status
status_counts_nunique(dfw, legion) ==
    LET g == GroupRows(dfw, "Legion", legion)
    IN [Active |-> nunique(Column(SelectSeq(g, LAMBDA r : r.Status = "Active"), "Joueur")),
        Inactive |-> nunique(Column(SelectSeq(g, LAMBDA r : r.Status = "Inactive"), "Joueur"))]
\* groupby(['Legion', 'Status']).size().unstack(fill_value=0), then the two
\* columns made to exist
status_counts(dfw, legion) ==
    LET g == GroupRows(dfw, "Legion", legion)
    IN [Active |-> Count(g, LAMBDA r : r.Status = "Active"),
        Inactive |-> Count(g, LAMBDA r : r.Status = "Inactive")]

SummaryRow(dfw, legion) ==
    LET b == base_stats(dfw, legion)
        c == status_counts(dfw, legion)
    IN [Legion |-> legion, Total_Players |-> b.Total_Players,
        Total_Score |-> b.Total_Score, Result |-> b.Result,
        Active |-> c.Active, Inactive |-> c.Inactive,
        Participation_Rate |-> Percent(c.Active, b.Total_Players)]

TotalLabel == Txt(<<"T", "O", "T", "A", "L">>)
Dash == Txt(<<"-">>)
total_participation_rate(total_active, total_players_sum) ==
    IF total_players_sum > 0 THEN Percent(total_active, total_players_sum)
    ELSE Finite(0, 1)
total_row(tbl) ==
    [Legion |-> TotalLabel,
     Total_Players |-> SumSeq(Column(tbl, "Total_Players")),
     Total_Score |-> SumSeq(Column(tbl, "Total_Score")),
     Result |-> Dash,
     Active |-> SumSeq(Column(tbl, "Active")),
     Inactive |-> SumSeq(Column(tbl, "Inactive")),
     Participation_Rate |-> total_participation_rate(SumSeq(Column(tbl, "Active")),
                                                     SumSeq(Column(tbl, "Total_Players")))]

LegionSummaryTable(dfw) ==
    LET keys == SortTxt(GroupKeys(dfw, "Legion"))
        tbl == [i \in 1..Len(keys) |-> SummaryRow(dfw, keys[i])]
    IN Append(tbl, total_row(tbl))

\* --------------------------------------------------- hourly histograms
\* rows[rows['Score'] > 0].groupby('Heure').size()
HourlyStats(rows) ==
    LET act == SelectSeq(rows, LAMBDA r : r.Score > 0)
        keys == SortTxt(GroupKeys(act, "Heure"))
    IN [i \in 1..Len(keys) |->
           [Heure |-> keys[i], Active_Players |-> Len(GroupRows(act, "Heure", keys[i]))]]

\* ----------------------------------------------------------------- rosters
\* legion_time_map.get(legion, "N/A")
legion_time_map(dfw, legion) ==
    IF legion \in GroupKeys(dfw, "Legion")
    THEN ModeOrNA(Column(GroupRows(dfw, "Legion", legion), "Heure"))
    ELSE NA

\* sorted(df_week_filtered['Legion'].unique()): unique() keeps NaN, and the
\* comparison of a float NaN with a str raises TypeError.
SortedRaises(dfw) ==
    LET u == {dfw[i].Legion : i \in 1..Len(dfw)}
    IN NaN \in u /\ u # {NaN}
all_legions(dfw) ==
    LET u == {dfw[i].Legion : i \in 1..Len(dfw)}
    IN IF NaN \in u THEN <<NaN>> ELSE SortTxt(u)

Blank == Txt(<<>>)
Pad(players, n) == players \o [i \in 1..(n - Len(players)) |-> Blank]
RosterPlayers(dfw, status_filter, legion) ==
    IF IsNaN(legion) THEN <<>>
    ELSE Column(SelectSeq(dfw, LAMBDA r : r.Status = status_filter /\ r.Legion = legion),
                "Joueur")
create_legion_table(dfw, status_filter) ==
    LET ls == all_legions(dfw)
        lens == {Len(RosterPlayers(dfw, status_filter, ls[i])) : i \in 1..Len(ls)} \cup {0}
        max_length == CHOOSE m \in lens : \A k \in lens : k <= m
    IN [i \in 1..Len(ls) |->
           [Legion |-> ls[i], Time |-> legion_time_map(dfw, ls[i]),
            Players |-> Pad(RosterPlayers(dfw, status_filter, ls[i]), max_length)]]

\* ------------------------------------------------- player summary (global)
\* calculate_win_rate comparing the Result with 'Victory' for equality
calculate_win_rate_equal(series) ==
    LET wins == Count(series, LAMBDA x : PyStr(x) = Victory.s)
        total == Len(series)
    IN IF total > 0 THEN RoundDiv(wins * 10000, total) ELSE 0
\* Win_Rate in hundredths of a percent: round(wins / total * 100, 2) * 100
calculate_win_rate(series) ==
    LET wins == Count(series, LAMBDA x : StrContains(Victory.s, PyStr(x)))
        total == Len(series)
    IN IF total > 0 THEN RoundDiv(wins * 10000, total) ELSE 0
get_preferred_schedule(series) == ModeOrNA(series)
Participations(scores) == Count(scores, LAMBDA x : x > 0)
Absences(scores) == Count(scores, LAMBDA x : x = 0)

PlayerStatsRow(rows, joueur) ==
    LET g == GroupRows(rows, "Joueur", joueur)
    IN [Joueur |-> joueur,
        Total_Score |-> SumSeq(Column(g, "Score")),
        \* mean rounded to 2 decimals, in hundredths
        Average_Score |-> RoundDiv(SumSeq(Column(g, "Score")) * 100, Len(g)),
        Win_Rate |-> calculate_win_rate(Column(g, "Result")),
        Participations |-> Participations(Column(g, "Score")),
        Absences |-> Absences(Column(g, "Score")),
        Preferred_Schedule |-> get_preferred_schedule(Column(g, "Heure"))]
PlayerStats(rows) ==
    LET keys == SortTxt(GroupKeys(rows, "Joueur"))
    IN [i \in 1..Len(keys) |-> PlayerStatsRow(rows, keys[i])]

\* --------------------------------------------------------- schedule matrix
active_global_df(rows) == SelectSeq(rows, LAMBDA r : r.Score > 0)
\* pivot_table(index='Joueur', columns='Heure', values='Score', aggfunc='count',
\* fill_value=0): the rows with a NaN key are dropped, the index is sorted
PivotTable(rows) ==
    LET act == SelectSeq(active_global_df(rows),
                         LAMBDA r : ~IsNaN(r.Joueur) /\ ~IsNaN(r.Heure))
        players == SortTxt(GroupKeys(act, "Joueur"))
        hours == GroupKeys(act, "Heure")
    IN [i \in 1..Len(players) |->
           [Joueur |-> players[i],
            Cells |-> [h \in hours |->
                         Count(act, LAMBDA r : r.Joueur = players[i] /\ r.Heure = h)]]]
RECURSIVE SumOver(_, _)
SumOver(f, S) == IF S = {} THEN 0
                 ELSE LET x == CHOOSE y \in S : TRUE IN f[x] + SumOver(f, S \ {x})
\* schedule_pivot['TOTAL'] = schedule_pivot.sum(axis=1)
WithTotal(pivot) ==
    [i \in 1..Len(pivot) |->
        [Joueur |-> pivot[i].Joueur, Cells |-> pivot[i].Cells,
         TOTAL |-> SumOver(pivot[i].Cells, DOMAIN pivot[i].Cells)]]
\* sort_values('TOTAL', ascending=False): the default kind is quicksort, which
\* is not stable, so any non-increasing arrangement of the rows may come out.
SortValuesDesc(tbl) ==
    {s \in [1..Len(tbl) -> Range(tbl)] :
        /\ Range(s) = Range(tbl)
        /\ \A i \in 1..(Len(s) - 1) : s[i].TOTAL >= s[i + 1].TOTAL}

\* ------------------------------------------------------------- the script
NoWeek == [year |-> 0, week |-> 0, dates |-> <<>>]
DerivedTables == {"final_summary_table", "weekly_hourly_stats", "df_active",
                  "df_inactive", "player_stats", "global_hourly_stats",
                  "schedule_pivot"}

Init ==
    /\ uploaded_file \in Files
    /\ pc = "read_excel"
    /\ df = <<>>
    /\ selected_week = NoWeek
    /\ final_summary_table = <<>>
    /\ weekly_hourly_stats = <<>>
    /\ df_active = <<>>
    /\ df_inactive = <<>>
    /\ player_stats = <<>>
    /\ global_hourly_stats = <<>>
    /\ schedule_pivot = <<>>
    /\ computed = {}
    /\ rendered = {}

\* read_excel and the cleaning and preprocessing block
Ingest ==
    /\ pc = "read_excel"
    /\ df' = Preprocess(uploaded_file)
    /\ pc' = "select_week"
    /\ UNCHANGED <<uploaded_file, selected_week, final_summary_table,
                   weekly_hourly_stats, df_active, df_inactive, player_stats,
                   global_hourly_stats, schedule_pivot, computed, rendered>>

\* the sidebar's selectbox: the user's choice among the labels of the file
SelectWeek ==
    /\ pc = "select_week"
    /\ \E w \in unique_weeks : selected_week' = w
    /\ pc' = "legion_summary"
    /\ UNCHANGED <<uploaded_file, df, final_summary_table, weekly_hourly_stats,
                   df_active, df_inactive, player_stats, global_hourly_stats,
                   schedule_pivot, computed, rendered>>

\* section 2.A: the summary table is computed and shown by st.dataframe
LegionSummary ==
    /\ pc = "legion_summary"
    /\ final_summary_table' = LegionSummaryTable(df_week_filtered)
    /\ computed' = computed \cup {"final_summary_table"}
    /\ rendered' = rendered \cup {"Stats by Legion"}
    /\ pc' = "weekly_charts"
    /\ UNCHANGED <<uploaded_file, df, selected_week, weekly_hourly_stats, df_active,
                   df_inactive, player_stats, global_hourly_stats, schedule_pivot>>

\* the weekly activity chart and the weekly hourly chart
WeeklyCharts ==
    /\ pc = "weekly_charts"
    /\ weekly_hourly_stats' = HourlyStats(df_week_filtered)
    /\ computed' = computed \cup {"weekly_hourly_stats"}
    /\ rendered' = rendered \cup {"Weekly Activity Chart", "Weekly Hourly Chart"}
    /\ pc' = "rosters"
    /\ UNCHANGED <<uploaded_file, df, selected_week, final_summary_table, df_active,
                   df_inactive, player_stats, global_hourly_stats, schedule_pivot>>

\* section 2.B: the two rosters
Rosters ==
    /\ pc = "rosters"
    /\ ~SortedRaises(df_week_filtered)
    /\ df_active' = create_legion_table(df_week_filtered, "Active")
    /\ df_inactive' = create_legion_table(df_week_filtered, "Inactive")
    /\ computed' = computed \cup {"df_active", "df_inactive"}
    /\ rendered' = rendered \cup {"Active Players", "Inactive Players"}
    /\ pc' = "player_summary"
    /\ UNCHANGED <<uploaded_file, df, selected_week, final_summary_table,
                   weekly_hourly_stats, player_stats, global_hourly_stats,
                   schedule_pivot>>

\* create_legion_table raises and the except clause reports it with st.error
RostersRaise ==
    /\ pc = "rosters"
    /\ SortedRaises(df_week_filtered)
    /\ rendered' = rendered \cup {"Error processing the file"}
    /\ pc' = "error"
    /\ UNCHANGED <<uploaded_file, df, selected_week, final_summary_table,
                   weekly_hourly_stats, df_active, df_inactive, player_stats,
                   global_hourly_stats, schedule_pivot, computed>>

\* section 3: the global player table
PlayerSummary ==
    /\ pc = "player_summary"
    /\ player_stats' = PlayerStats(df)
    /\ computed' = computed \cup {"player_stats"}
    /\ rendered' = rendered \cup {"Individual Player Activity"}
    /\ pc' = "global_hourly"
    /\ UNCHANGED <<uploaded_file, df, selected_week, final_summary_table,
                   weekly_hourly_stats, df_active, df_inactive, global_hourly_stats,
                   schedule_pivot>>

\* the global hourly chart
GlobalHourly ==
    /\ pc = "global_hourly"
    /\ global_hourly_stats' = HourlyStats(df)
    /\ computed' = computed \cup {"global_hourly_stats"}
    /\ rendered' = rendered \cup {"Global Hourly Chart"}
    /\ pc' = "schedule_matrix"
    /\ UNCHANGED <<uploaded_file, df, selected_week, final_summary_table,
                   weekly_hourly_stats, df_active, df_inactive, player_stats,
                   schedule_pivot>>

\* the schedule matrix
ScheduleMatrix ==
    /\ pc = "schedule_matrix"
    /\ schedule_pivot' \in SortValuesDesc(WithTotal(PivotTable(df)))
    /\ computed' = computed \cup {"schedule_pivot"}
    /\ rendered' = rendered \cup {"Schedule Matrix"}
    /\ pc' = "raw_data"
    /\ UNCHANGED <<uploaded_file, df, selected_week, final_summary_table,
                   weekly_hourly_stats, df_active, df_inactive, player_stats,
                   global_hourly_stats>>

\* section 4 and the sidebar's two download buttons
RawDataAndExports ==
    /\ pc = "raw_data"
    /\ rendered' = rendered \cup {"Raw Data", "Weekly Report", "Full History"}
    /\ pc' = "done"
    /\ UNCHANGED <<uploaded_file, df, selected_week, final_summary_table,
                   weekly_hourly_stats, df_active, df_inactive, player_stats,
                   global_hourly_stats, schedule_pivot, computed>>

Next ==
    \/ Ingest
    \/ SelectWeek
    \/ LegionSummary
    \/ WeeklyCharts
    \/ Rosters
    \/ RostersRaise
    \/ PlayerSummary
    \/ GlobalHourly
    \/ ScheduleMatrix
    \/ RawDataAndExports

Spec == Init /\ [][Next]_vars

\* ================================================================ claims
\* What the properties below speak of, read off the state.
SummaryDone == "final_summary_table" \in computed
LegionRows == SubSeq(final_summary_table, 1, Len(final_summary_table) - 1)
TotalRow == final_summary_table[Len(final_summary_table)]
\* the positions of the uploaded rows in the selected week
InScope == {i \in 1..Len(uploaded_file) :
               /\ IsoYear(uploaded_file[i].Date) = selected_week.year
               /\ IsoWeek(uploaded_file[i].Date) = selected_week.week}
LegionScope(legion) == {i \in InScope : uploaded_file[i].Legion = legion}

\* C1: the Active and Inactive counts of the legion rows of the weekly summary
\* add up, as do those of the TOTAL row, to the number of records of the
\* selected week.
C1_CountsCoverEveryRecord ==
    SummaryDone =>
        /\ SumSeq(Column(LegionRows, "Active")) + SumSeq(Column(LegionRows, "Inactive"))
               = Cardinality(InScope)
        /\ TotalRow.Active + TotalRow.Inactive = Cardinality(InScope)

\* C2 as stated: in every legion row Active + Inactive is Total_Players, the
\* number of distinct player names of the legion in scope.
C2_CountsEqualDistinctPlayers ==
    SummaryDone =>
        \A k \in 1..Len(LegionRows) :
            LegionRows[k].Active + LegionRows[k].Inactive = LegionRows[k].Total_Players

NamesInScope(legion) == {uploaded_file[i].Joueur : i \in LegionScope(legion)} \ {NaN}
\* C2 amended: in every legion row Active + Inactive is the number of the
\* legion's records in scope; Total_Players, the number of distinct names among
\* them, is at most that, and equal exactly when no record of the legion lacks
\* a name or repeats one.
C2_CountsEqualRecords ==
    SummaryDone =>
        \A k \in 1..Len(LegionRows) :
            LET r == LegionRows[k]
                recs == LegionScope(r.Legion)
            IN /\ r.Active + r.Inactive = Cardinality(recs)
               /\ r.Total_Players = Cardinality(NamesInScope(r.Legion))
               /\ r.Total_Players <= r.Active + r.Inactive
               /\ (r.Total_Players = r.Active + r.Inactive) <=>
                      /\ \A i \in recs : ~IsNaN(uploaded_file[i].Joueur)
                      /\ \A i, j \in recs :
                             uploaded_file[i].Joueur = uploaded_file[j].Joueur => i = j

\* A legion row whose player has two records in the week.
C2_RepeatedPlayerSummarised ==
    /\ SummaryDone
    /\ \E k \in 1..Len(LegionRows) :
           /\ LegionRows[k].Total_Players = 1
           /\ LegionRows[k].Active = 1
           /\ LegionRows[k].Inactive = 1

\* C3: every legion row's Participation_Rate is a finite number, Active /
\* Total_Players * 100 when Total_Players > 0 and 0 when Total_Players = 0.
C3_RateGuarded ==
    SummaryDone =>
        \A k \in 1..Len(LegionRows) :
            LET r == LegionRows[k]
                rate == r.Participation_Rate
            IN /\ rate.k = "finite"
               /\ r.Total_Players > 0 => rate.num * r.Total_Players = r.Active * 100 * rate.den
               /\ r.Total_Players = 0 => rate.num = 0

\* C4: nothing is rendered before every derived table is computed, so a run
\* that ends in the error message shows nothing else.
C4_ComputedBeforeRendered ==
    /\ rendered # {} => DerivedTables \subseteq computed \/ pc = "error"
    /\ pc = "error" => rendered = {"Error processing the file"}

\* The non-blank Result values of a legion's records in scope, in record order.
ResultsInScope(legion) ==
    SelectSeq([i \in 1..Len(uploaded_file) |->
                  IF i \in LegionScope(legion) THEN uploaded_file[i].Result ELSE NaN],
              LAMBDA c : ~IsNaN(c))
Occurrences(seq, v) == Cardinality({i \in 1..Len(seq) : seq[i] = v})
MostFrequent(seq) == {v \in Range(seq) : \A w \in Range(seq) :
                                            Occurrences(seq, w) <= Occurrences(seq, v)}
FirstSeen(seq, S) == seq[CHOOSE i \in 1..Len(seq) :
                             seq[i] \in S /\ \A j \in 1..(i - 1) : seq[j] \notin S]
Smallest(S) == CHOOSE x \in S : \A y \in S \ {x} : StrLess(x.s, y.s)
LegionsInScope == {uploaded_file[i].Legion : i \in InScope} \ {NaN}

\* C5 as stated: a legion's Result is its most frequent non-blank Result value,
\* the first encountered of several equally frequent ones, and "N/A" with none.
C5_TieGoesToFirstSeen ==
    SummaryDone =>
        \A k \in 1..Len(LegionRows) :
            LET seq == ResultsInScope(LegionRows[k].Legion)
            IN LegionRows[k].Result =
                   IF seq = <<>> THEN NA ELSE FirstSeen(seq, MostFrequent(seq))

\* C5 amended: every legion in scope has a row, and its Result is the legion's
\* most frequent non-blank Result value, the smallest in string order of
\* several equally frequent ones, and "N/A" with none.
C5_TieGoesToSmallest ==
    SummaryDone =>
        /\ Range(Column(LegionRows, "Legion")) = LegionsInScope
        /\ \A k \in 1..Len(LegionRows) :
               LET seq == ResultsInScope(LegionRows[k].Legion)
               IN LegionRows[k].Result =
                      IF seq = <<>> THEN NA ELSE Smallest(MostFrequent(seq))

\* A legion summarised whose equally frequent Results were met largest first.
C5_TieSummarised ==
    /\ SummaryDone
    /\ \E k \in 1..Len(LegionRows) :
           LET seq == ResultsInScope(LegionRows[k].Legion)
           IN /\ seq # <<>>
              /\ Cardinality(MostFrequent(seq)) >= 2
              /\ FirstSeen(seq, MostFrequent(seq)) # Smallest(MostFrequent(seq))

\* The cleaned records of a player, by position.
Ingested == pc # "read_excel"
RecordsOf(joueur) == {i \in 1..Len(df) : df[i].Joueur = joueur}
RECURSIVE SumScores(_)
SumScores(I) == IF I = {} THEN 0
                ELSE LET i == CHOOSE j \in I : TRUE IN df[i].Score + SumScores(I \ {i})
Wins(joueur) == {i \in RecordsOf(joueur) :
                    IsTxt(df[i].Result) /\ StrContains(Victory.s, df[i].Result.s)}
PlayersDone == "player_stats" \in computed

\* C6: the global player table has one row per distinct player name of the
\* whole record set, holding the sum of the player's scores, the number of the
\* player's records with score > 0 and with score = 0, and Win_Rate (kept in
\* hundredths) the nearest value with 2 decimals to 100 * wins / records, a win
\* being a Result that contains "Victory"; the records (P1, "1,000", "Victory")
\* and (P1, "0", "Defeat") give 1000, 1, 1 and 50.00.
C6_PlayerTable ==
    PlayersDone =>
        /\ Range(Column(player_stats, "Joueur")) = Range(Column(df, "Joueur")) \ {NaN}
        /\ \A k, m \in 1..Len(player_stats) :
               player_stats[k].Joueur = player_stats[m].Joueur => k = m
        /\ \A k \in 1..Len(player_stats) :
               LET r == player_stats[k]
                   recs == RecordsOf(r.Joueur)
                   n == Cardinality(recs)
                   exact == 10000 * Cardinality(Wins(r.Joueur))
               IN /\ r.Total_Score = SumScores(recs)
                  /\ r.Participations = Cardinality({i \in recs : df[i].Score > 0})
                  /\ r.Absences = Cardinality({i \in recs : df[i].Score = 0})
                  /\ 2 * (r.Win_Rate * n - exact) <= n
                  /\ 2 * (exact - r.Win_Rate * n) <= n
        /\ (/\ Len(uploaded_file) = 2
            /\ Column(uploaded_file, "Joueur") = <<P1, P1>>
            /\ Column(uploaded_file, "Score") = <<Score1000, Score0>>
            /\ Column(uploaded_file, "Result") = <<Victory, Defeat>>)
           => player_stats = <<[Joueur |-> P1, Total_Score |-> 1000,
                                Average_Score |-> 50000, Win_Rate |-> 5000,
                                Participations |-> 1, Absences |-> 1,
                                Preferred_Schedule |-> Txt(<<"0", "9", ":", "0", "0">>)]>>

\* The player table of the file (P1, "1,000", "Victory"), (P1, "0", "Defeat").
C6_ExampleSummarised ==
    /\ PlayersDone
    /\ Column(uploaded_file, "Joueur") = <<P1, P1>>
    /\ Column(uploaded_file, "Score") = <<Score1000, Score0>>
    /\ Column(uploaded_file, "Result") = <<Victory, Defeat>>
    /\ player_stats[1].Win_Rate = 5000

\* What C7 says of one raw text: upper-cased, without H and trimmed; padded to
\* two digits with ":00" when that is all digits.
Remainder(s) == StrStrip(StrRemove(StrUpper(s), "H"))
Padded(s) == Format02d(ParseDigits(Remainder(s))) \o <<":", "0", "0">>
TextHours == {i \in 1..Len(df) : IsTxt(uploaded_file[i].Heure)}
Hour0900 == Txt(<<"0", "9", ":", "0", "0">>)

C8_ScoresNonNegative ==
    Ingested =>
        \A i \in 1..Len(df) :
            LET c == uploaded_file[i].Score
                digits == StrRemove(StrRemove(PyStr(c), ","), ".")
            IN /\ df[i].Score \in Nat
               /\ IsTxt(c) /\ StrIsDigit(digits) => df[i].Score = ParseDigits(digits)
               /\ IsNaN(c) => df[i].Score = 0

MatrixDone == "schedule_pivot" \in computed
ActiveRecords == {i \in 1..Len(df) : df[i].Score > 0 /\ ~IsNaN(df[i].Joueur)}
\* the position of a player in the matrix before the sort: the index is sorted
Earlier(a, b) == StrLess(a.Joueur.s, b.Joueur.s)

\* C9: the schedule matrix has one row per player with a record of score > 0,
\* one column per hour seen among those records, in each cell the number of the
\* player's active records at that hour, in TOTAL the sum of the row's cells,
\* and its rows by non-increasing TOTAL, those of equal TOTAL in their earlier
\* order.
C9_ScheduleMatrix ==
    MatrixDone =>
        /\ Range(Column(schedule_pivot, "Joueur")) = {df[i].Joueur : i \in ActiveRecords}
        /\ \A k \in 1..Len(schedule_pivot) :
               LET r == schedule_pivot[k]
               IN /\ DOMAIN r.Cells = {df[i].Heure : i \in ActiveRecords} \ {NaN}
                  /\ \A h \in DOMAIN r.Cells :
                         r.Cells[h] = Cardinality({i \in ActiveRecords :
                                           df[i].Joueur = r.Joueur /\ df[i].Heure = h})
                  /\ r.TOTAL = SumOver(r.Cells, DOMAIN r.Cells)
        /\ \A k \in 1..(Len(schedule_pivot) - 1) :
               /\ schedule_pivot[k].TOTAL >= schedule_pivot[k + 1].TOTAL
               /\ schedule_pivot[k].TOTAL = schedule_pivot[k + 1].TOTAL
                      => Earlier(schedule_pivot[k], schedule_pivot[k + 1])

\* C10: for every player of the global table, Participations + Absences is the
\* number of the player's records, Participations the number of them with
\* Status Active and Absences the number with Status Inactive.
C10_CountsMatchStatus ==
    PlayersDone =>
        \A k \in 1..Len(player_stats) :
            LET r == player_stats[k]
                recs == RecordsOf(r.Joueur)
            IN /\ r.Participations + r.Absences = Cardinality(recs)
               /\ r.Participations = Cardinality({i \in recs : df[i].Status = "Active"})
               /\ r.Absences = Cardinality({i \in recs : df[i].Status = "Inactive"})
====
